---------------------------- MODULE Spec2Model ----------------------------
(***************************************************************************)
(* A state-machine model of pdf-toolkit-pro: the page-range parser         *)
(* (utils.parse_page_ranges), the path validators of utils.py, the         *)
(* split operations (split.py) and the merge operations (merge.py).        *)
(*                                                                         *)
(* One call of one operation runs per behaviour: Init draws the call and   *)
(* the filesystem it starts on, the actions are the steps of the call.     *)
(* The PDF library is the external collaborator of the code: a file's      *)
(* content is the sequence of pages PdfReader reports for it, a PdfWriter  *)
(* is the sequence of pages added to it plus its outline.                  *)
(***************************************************************************)
EXTENDS Integers, Sequences, FiniteSets, TLC

VARIABLES
    call,          \* the operation called and its arguments
    pc,            \* control point of the call
    files,         \* filesystem: path -> content (sequence of pages) of each existing file
    dirs,          \* filesystem: the existing directories
    parts,         \* parse_page_ranges: range_string.split(',')
    pages,         \* parse_page_ranges: the local set `pages`
    reader,        \* the pages of the PdfReader that is open
    total_pages,   \* split: len(reader.pages); merge_pdfs: the local counter
    num_splits,    \* split_by_pages: the number of output files
    ranges,        \* split_at_pages: the list of (start, end)
    file_paths,    \* merge_directory: the list handed to merge_pdfs
    validated_files, \* merge: the validated input paths
    titles,        \* merge_with_bookmarks: bookmark_titles after defaulting
    current_page,  \* merge_with_bookmarks: the local counter
    i,             \* index of the loop iteration in progress (1-based)
    j,             \* merge: pages of the open reader added so far
    writer,        \* pages added to the PdfWriter of the call
    outline,       \* outline items added to the PdfWriter of the call
    output_files,  \* split: the list returned
    wlog,          \* history: every open(path, 'wb') of the call, in order
    result,        \* how the call ended: a return value or an exception
    prev           \* history: the call completed before this one, if any

vars == << call, pc, files, dirs, parts, pages, reader, total_pages,
           num_splits, ranges, file_paths, validated_files, titles,
           current_page, i, j, writer, outline, output_files, wlog, result,
           prev >>

\* The variables of each part of the program, for the UNCHANGED clauses
fsVars     == << files, dirs, wlog >>
parseVars  == << parts, pages >>
splitVars  == << num_splits, ranges, output_files >>
mergeVars  == << file_paths, validated_files, titles, current_page, j >>
writerVars == << writer, outline >>

-----------------------------------------------------------------------------
(* Bounds of the model.                                                    *)

\* parse_page_ranges: most comma-separated tokens in a range string
MaxTokens == 2
\* parse_page_ranges: largest total_pages
MaxTotal == 3
\* split: most pages of the input document
MaxPages == 4
\* split_at_pages: most split points given
MaxPoints == 2
\* merge: most input files given
MaxInputs == 3
\* merge: most pages of d/a.pdf and of d/b.pdf
MaxDocPages == 2

-----------------------------------------------------------------------------
(* Strings are sequences of one-character strings.                         *)

Digits == {"0", "1", "2", "3", "4", "5", "6", "7", "8", "9"}

DigitVal(c) ==
    CASE c = "0" -> 0 [] c = "1" -> 1 [] c = "2" -> 2 [] c = "3" -> 3
      [] c = "4" -> 4 [] c = "5" -> 5 [] c = "6" -> 6 [] c = "7" -> 7
      [] c = "8" -> 8 [] c = "9" -> 9

DigitChar(d) ==
    CASE d = 0 -> "0" [] d = 1 -> "1" [] d = 2 -> "2" [] d = 3 -> "3"
      [] d = 4 -> "4" [] d = 5 -> "5" [] d = 6 -> "6" [] d = 7 -> "7"
      [] d = 8 -> "8" [] d = 9 -> "9"

\* str(n) for n >= 0: the decimal digits of n (used to write the inputs)
RECURSIVE Str(_)
Str(n) == IF n < 10 THEN << DigitChar(n) >>
          ELSE Str(n \div 10) \o << DigitChar(n % 10) >>

\* s.split(sep): the pieces of s between the occurrences of the character sep
RECURSIVE SplitAcc(_, _, _)
SplitAcc(s, sep, cur) ==
    IF s = << >> THEN << cur >>
    ELSE IF Head(s) = sep THEN << cur >> \o SplitAcc(Tail(s), sep, << >>)
    ELSE SplitAcc(Tail(s), sep, Append(cur, Head(s)))

StrSplit(s, sep) == SplitAcc(s, sep, << >>)

RECURSIVE LStrip(_)
LStrip(s) == IF s # << >> /\ Head(s) = " " THEN LStrip(Tail(s)) ELSE s

RECURSIVE RStrip(_)
RStrip(s) == IF s # << >> /\ s[Len(s)] = " "
             THEN RStrip(SubSeq(s, 1, Len(s) - 1)) ELSE s

\* s.strip()
Strip(s) == RStrip(LStrip(s))

\* c in s
Contains(s, c) == \E k \in 1..Len(s) : s[k] = c

RECURSIVE DigitsVal(_)
DigitsVal(s) == IF s = << >> THEN 0
                ELSE 10 * DigitsVal(SubSeq(s, 1, Len(s) - 1)) + DigitVal(s[Len(s)])

AllDigits(s) == s # << >> /\ \A k \in 1..Len(s) : s[k] \in Digits

\* int(s): surrounding whitespace is ignored, one sign is allowed, the rest
\* must be decimal digits; anything else raises ValueError (ok = FALSE)
ParseInt(s) ==
    LET t == Strip(s) IN
    IF AllDigits(t) THEN [ok |-> TRUE, val |-> DigitsVal(t)]
    ELSE IF t # << >> /\ Head(t) = "+" /\ AllDigits(Tail(t))
         THEN [ok |-> TRUE, val |-> DigitsVal(Tail(t))]
    ELSE IF t # << >> /\ Head(t) = "-" /\ AllDigits(Tail(t))
         THEN [ok |-> TRUE, val |-> 0 - DigitsVal(Tail(t))]
    ELSE [ok |-> FALSE, val |-> 0]

\* sorted(list(S)) for a set of integers
RECURSIVE SortedSeq(_)
SortedSeq(S) ==
    IF S = {} THEN << >>
    ELSE LET m == CHOOSE x \in S : \A y \in S : x <= y
         IN  << m >> \o SortedSeq(S \ {m})

\* range(a, b)
PyRange(a, b) == a .. (b - 1)

-----------------------------------------------------------------------------
(* Values shared by all operations.                                        *)

\* An exception: its type, its message (the format string, without the
\* values substituted into it) and, where it was raised `from e`, the
\* message of e
Exc(type, msg, cause) == [type |-> type, msg |-> msg, cause |-> cause]

NoExc == Exc("", "", "")

Running == [kind |-> "running", value |-> << >>, exc |-> NoExc]

Return(v) == [kind |-> "return", value |-> v, exc |-> NoExc]

Raise(e) == [kind |-> "raise", value |-> << >>, exc |-> e]

-----------------------------------------------------------------------------
(* utils.parse_page_ranges                                                 *)

\* Mutant of RangeTry: range(start - 1, end - 1), the last page left out
RangeTry_DropsLast(part, total) ==
    LET pieces == StrSplit(part, "-")
        start  == ParseInt(Strip(pieces[1]))
        end    == ParseInt(Strip(pieces[2]))
    IN  IF Len(pieces) # 2
          THEN [ok |-> FALSE, add |-> {}, msg |-> "too many values to unpack"]
        ELSE IF ~start.ok \/ ~end.ok
          THEN [ok |-> FALSE, add |-> {}, msg |-> "invalid literal for int()"]
        ELSE IF start.val < 1 \/ end.val > total \/ start.val > end.val
          THEN [ok |-> FALSE, add |-> {},
                msg |-> "Invalid range: {part}. Must be between 1 and {total_pages}"]
        ELSE [ok |-> TRUE, add |-> PyRange(start.val - 1, end.val - 1), msg |-> ""]

\* The try block of the range branch: the outcome of one part holding '-'
RangeTry(part, total) ==
    LET pieces == StrSplit(part, "-")
        start  == ParseInt(Strip(pieces[1]))
        end    == ParseInt(Strip(pieces[2]))
    IN  IF Len(pieces) # 2
          THEN [ok |-> FALSE, add |-> {}, msg |-> "too many values to unpack"]
        ELSE IF ~start.ok \/ ~end.ok
          THEN [ok |-> FALSE, add |-> {}, msg |-> "invalid literal for int()"]
        ELSE IF start.val < 1 \/ end.val > total \/ start.val > end.val
          THEN [ok |-> FALSE, add |-> {},
                msg |-> "Invalid range: {part}. Must be between 1 and {total_pages}"]
        ELSE [ok |-> TRUE, add |-> PyRange(start.val - 1, end.val), msg |-> ""]

\* Mutant of SingleTry: pages.add(page), the page kept 1-based
SingleTry_OneBased(part, total) ==
    LET page == ParseInt(part)
    IN  IF ~page.ok
          THEN [ok |-> FALSE, add |-> {}, msg |-> "invalid literal for int()"]
        ELSE IF page.val < 1 \/ page.val > total
          THEN [ok |-> FALSE, add |-> {},
                msg |-> "Invalid page number: {page}. Must be between 1 and {total_pages}"]
        ELSE [ok |-> TRUE, add |-> {page.val}, msg |-> ""]

\* The try block of the single-page branch
SingleTry(part, total) ==
    LET page == ParseInt(part)
    IN  IF ~page.ok
          THEN [ok |-> FALSE, add |-> {}, msg |-> "invalid literal for int()"]
        ELSE IF page.val < 1 \/ page.val > total
          THEN [ok |-> FALSE, add |-> {},
                msg |-> "Invalid page number: {page}. Must be between 1 and {total_pages}"]
        ELSE [ok |-> TRUE, add |-> {page.val - 1}, msg |-> ""]

\* The body of the for loop on one part: what it adds to `pages`, or the
\* exception its except clause raises in place of the one caught
ParsePart(raw, total) ==
    LET part == Strip(raw) IN
    IF Contains(part, "-")
      THEN LET r == RangeTry(part, total) IN
           IF r.ok THEN [ok |-> TRUE, add |-> r.add, exc |-> NoExc]
           ELSE [ok |-> FALSE, add |-> {},
                 exc |-> Exc("ValueError", "Invalid range format: {part}", r.msg)]
      ELSE LET r == SingleTry(part, total) IN
           IF r.ok THEN [ok |-> TRUE, add |-> r.add, exc |-> NoExc]
           ELSE [ok |-> FALSE, add |-> {},
                 exc |-> Exc("ValueError", "Invalid page number: {part}", r.msg)]

\* sorted(list(pages))
ParseResult(S) == SortedSeq(S)

-----------------------------------------------------------------------------
(* Paths and the filesystem.                                               *)

\* A path: the directory (its components) and the file name, which is
\* base + tag + (the decimal num, when num > 0) + ext.  The name's stem is
\* the name without ext.
MkPath(dir, base, tag, num, ext) ==
    [dir |-> dir, base |-> base, tag |-> tag, num |-> num, ext |-> ext]

NoPath == MkPath(<< >>, "", "", 0, "")

\* A page of a document: the file it was read from and its 0-based index
Page(p, k) == [src |-> p, idx |-> k]

\* The content of a file of n pages at path p
Doc(p, n) == [k \in 1..n |-> Page(p, k - 1)]

\* A call: the operation and its arguments (those the operation does not
\* take keep the values below).  tokens is what range_string was written
\* from; the code never reads it.
NoCall ==
    [ fn              |-> "",
      range_string    |-> << >>,
      tokens          |-> << >>,
      total           |-> 0,
      input_files     |-> << >>,
      input_file      |-> NoPath,
      output_dir      |-> << >>,
      output_file     |-> NoPath,
      overwrite       |-> FALSE,
      pages_per_split |-> 0,
      split_points    |-> << >>,
      output_pattern  |-> [tag |-> "", num |-> FALSE],
      titles_given    |-> FALSE,
      bookmark_titles |-> << >>,
      directory       |-> << >>,
      recursive       |-> FALSE ]

\* What is kept of an earlier call of parse_page_ranges: how many tokens its
\* range string had, the 0-based pages they denote, and how the call ended
NoPrev == [ntokens |-> 0, denoted |-> {}, result |-> Running]

\* The state every call starts in, but for call, files and dirs
Fresh ==
    /\ pc = "call"
    /\ parts = << >>
    /\ pages = {}
    /\ reader = << >>
    /\ total_pages = 0
    /\ num_splits = 0
    /\ ranges = << >>
    /\ file_paths = << >>
    /\ validated_files = << >>
    /\ titles = << >>
    /\ current_page = 0
    /\ i = 0
    /\ j = 0
    /\ writer = << >>
    /\ outline = << >>
    /\ output_files = << >>
    /\ wlog = << >>
    /\ result = Running
    /\ prev = NoPrev

-----------------------------------------------------------------------------
(* The range strings parse_page_ranges is called on.                       *)

\* A token as written: a single page n, a range n-m, or text that is neither
SingleTok(n) == [kind |-> "single", n |-> n, m |-> n, text |-> Str(n)]

RangeTok(n, m) ==
    [kind |-> "range", n |-> n, m |-> m, text |-> Str(n) \o << "-" >> \o Str(m)]

JunkTok(text) == [kind |-> "junk", n |-> 0, m |-> 0, text |-> text]

\* The same token with whitespace around it
Padded(t) == [t EXCEPT !.text = << " " >> \o @ \o << " ", " " >>]

TokenPool(maxPage) ==
    {SingleTok(n) : n \in 0..(maxPage + 1)}
      \cup {RangeTok(n, m) : n, m \in 1..maxPage}
      \cup { SingleTok(12), Padded(SingleTok(2)), Padded(RangeTok(1, 2)),
             RangeTok(0, 2), RangeTok(2, maxPage + 1),
             [SingleTok(1) EXCEPT !.text = << "+", "1" >>],
             JunkTok(<< "-", "2" >>),
             [RangeTok(1, 2) EXCEPT !.text = << "1", " ", "-", " ", "2" >>],
             JunkTok(<< >>), JunkTok(<< "x" >>), JunkTok(<< "1", "-" >>),
             JunkTok(<< "1", "-", "2", "-", "3" >>),
             JunkTok(<< "1", " ", "2" >>) }

\* The tokens of the calls compared with each other: every single page,
\* every range of two pages or more, and one range past the last page
PairPool(maxPage) ==
    {SingleTok(n) : n \in 1..maxPage}
      \cup {RangeTok(nm[1], nm[2]) :
               nm \in {x \in (1..maxPage) \X (1..maxPage) : x[1] < x[2]}}
      \cup {RangeTok(2, maxPage + 1)}

\* The 0-based pages a token stands for: {N-1} or {N-1, ..., M-1}
TokenPages(t) ==
    CASE t.kind = "single" -> {t.n - 1}
      [] t.kind = "range"  -> (t.n - 1)..(t.m - 1)
      [] OTHER             -> {}

Denoted(toks) == UNION {TokenPages(toks[k]) : k \in 1..Len(toks)}

\* The lists of 1..n elements of S
Lists(S, n) == UNION {[1..k -> S] : k \in 1..n}

\* ','.join of the tokens' texts
RECURSIVE Join(_)
Join(toks) ==
    IF Len(toks) = 1 THEN toks[1].text
    ELSE toks[1].text \o << "," >> \o Join(Tail(toks))

ParseCall(toks, total) ==
    [NoCall EXCEPT !.fn = "parse_page_ranges", !.range_string = Join(toks),
                   !.tokens = toks, !.total = total]

InitParse ==
    /\ \E toks \in Lists(TokenPool(MaxTotal), MaxTokens), total \in 1..MaxTotal :
          call = ParseCall(toks, total)
    /\ files = << >>
    /\ dirs = {}
    /\ Fresh

\* pages = set(); the for loop starts on range_string.split(',')
ParseStart ==
    /\ pc = "call"
    /\ call.fn = "parse_page_ranges"
    /\ parts' = StrSplit(call.range_string, ",")
    /\ pages' = {}
    /\ i' = 1
    /\ pc' = "parse_loop"
    /\ UNCHANGED << call, fsVars, reader, total_pages, splitVars,
                    mergeVars, writerVars, result, prev >>

\* One iteration of the for loop that ends normally
ParsePartOk ==
    /\ pc = "parse_loop"
    /\ i <= Len(parts)
    /\ ParsePart(parts[i], call.total).ok
    /\ pages' = pages \cup ParsePart(parts[i], call.total).add
    /\ i' = i + 1
    /\ UNCHANGED << call, pc, fsVars, parts, reader, total_pages,
                    splitVars, mergeVars, writerVars, result, prev >>

\* One iteration of the for loop that raises
ParsePartRaise ==
    /\ pc = "parse_loop"
    /\ i <= Len(parts)
    /\ ~ParsePart(parts[i], call.total).ok
    /\ result' = Raise(ParsePart(parts[i], call.total).exc)
    /\ pc' = "done"
    /\ UNCHANGED << call, fsVars, parseVars, reader, total_pages,
                    splitVars, mergeVars, i, writerVars, prev >>

\* return sorted(list(pages))
ParseReturn ==
    /\ pc = "parse_loop"
    /\ i > Len(parts)
    /\ result' = Return(ParseResult(pages))
    /\ pc' = "done"
    /\ UNCHANGED << call, fsVars, parseVars, reader, total_pages,
                    splitVars, mergeVars, i, writerVars, prev >>

NextParse == ParseStart \/ ParsePartOk \/ ParsePartRaise \/ ParseReturn

SpecParse == InitParse /\ [][NextParse]_vars

\* A second call of parse_page_ranges, on another string, same total_pages
ParseAgain ==
    /\ pc = "done"
    /\ call.fn = "parse_page_ranges"
    /\ prev = NoPrev
    /\ prev' = [ntokens |-> Len(call.tokens), denoted |-> Denoted(call.tokens),
                result |-> result]
    /\ \E toks \in Lists(PairPool(call.total), MaxTokens) :
          call' = ParseCall(toks, call.total)
    /\ pc' = "call"
    /\ parts' = << >>
    /\ pages' = {}
    /\ i' = 0
    /\ result' = Running
    /\ UNCHANGED << fsVars, reader, total_pages, splitVars, mergeVars,
                    writerVars >>

InitParsePair ==
    /\ \E toks \in Lists(PairPool(MaxTotal), MaxTokens) :
          call = ParseCall(toks, MaxTotal)
    /\ files = << >>
    /\ dirs = {}
    /\ Fresh

NextParsePair == NextParse \/ ParseAgain

SpecParsePair == InitParsePair /\ [][NextParsePair]_vars

-----------------------------------------------------------------------------
(* utils.validate_pdf_file, utils.validate_output_path                     *)

\* path.exists(), for the path of a file
Exists(fs, p) == p \in DOMAIN fs

\* path.suffix.lower()
LowerSuffix(p) == IF p.ext = ".PDF" THEN ".pdf" ELSE p.ext

\* Mutant of ValidatePdfFile: the suffix is checked before the existence
ValidatePdfFile_SuffixFirst(fs, p) ==
    IF ~(LowerSuffix(p) = ".pdf")
      THEN Exc("ValueError", "Not a PDF file: {filepath}", "")
    ELSE IF ~Exists(fs, p)
      THEN Exc("FileNotFoundError", "File not found: {filepath}", "")
    ELSE NoExc

\* validate_pdf_file(filepath): the exception it raises, or NoExc
ValidatePdfFile(fs, p) ==
    IF ~Exists(fs, p)
      THEN Exc("FileNotFoundError", "File not found: {filepath}", "")
    ELSE IF ~(LowerSuffix(p) = ".pdf")
      THEN Exc("ValueError", "Not a PDF file: {filepath}", "")
    ELSE NoExc

\* Mutant of ValidateOutputPath: an existing path is refused whatever
\* overwrite is
ValidateOutputPath_IgnoresOverwrite(fs, p, overwrite) ==
    IF Exists(fs, p)
      THEN Exc("FileExistsError", "Output file already exists: {filepath}", "")
    ELSE NoExc

\* Mutant of ValidateOutputPath: no path is refused
ValidateOutputPath_Never(fs, p, overwrite) == NoExc

\* validate_output_path(filepath, overwrite): the exception it raises, or NoExc
ValidateOutputPath(fs, p, overwrite) ==
    IF Exists(fs, p) /\ ~overwrite
      THEN Exc("FileExistsError", "Output file already exists: {filepath}", "")
    ELSE NoExc

\* Mutant of Mkdir: only the parent itself is made, not the directories
\* above it
Mkdir_ParentOnly(ds, p) == ds \cup {p.dir}

\* path.parent.mkdir(parents=True, exist_ok=True): the directories after it
Mkdir(ds, p) == ds \cup {SubSeq(p.dir, 1, k) : k \in 1..Len(p.dir)}

\* Mutant of WriteFile: nothing reaches the disk
WriteFile_Nothing(fs, p, content) == fs

\* with open(path, 'wb') as output: writer.write(output)
WriteFile(fs, p, content) ==
    [q \in DOMAIN fs \cup {p} |-> IF q = p THEN content ELSE fs[q]]

\* The record of one open(path, 'wb'): the path, what was written, whether
\* the path existed when it was opened and what it held then
Opened(fs, p, content) ==
    [path |-> p, content |-> content, existed |-> Exists(fs, p),
     replaced |-> IF Exists(fs, p) THEN fs[p] ELSE << >>]

-----------------------------------------------------------------------------
(* split.split_by_pages, split.split_at_pages, split.split_into_singles     *)

\* input_path.parent / output_pattern.format(base=input_path.stem, num=num),
\* for a pattern '{base}<tag>{num}.pdf' (num TRUE) or '{base}<tag>.pdf'
OutputPath(input_path, pattern, num) ==
    MkPath(input_path.dir, input_path.base, pattern.tag,
           IF pattern.num THEN num ELSE 0, ".pdf")

\* The directory the outputs of a split go to: output_dir if
\* split_into_singles was given one, else the directory of the input
OutDir(c) ==
    IF c.fn = "split_into_singles" /\ c.output_dir # << >>
      THEN c.output_dir
      ELSE c.input_file.dir

\* Mutant of SplitOutputPath: the number of the output is left out of its
\* name
SplitOutputPath_Unnumbered(c, num) ==
    [OutputPath(c.input_file, c.output_pattern, 0) EXCEPT !.dir = OutDir(c)]

\* output_path of output number num of the split c
SplitOutputPath(c, num) ==
    [OutputPath(c.input_file, c.output_pattern, num) EXCEPT !.dir = OutDir(c)]

Min(a, b) == IF a < b THEN a ELSE b

\* Mutant of NumSplits: total_pages // pages_per_split, rounded down
NumSplits_Floor(total, per) == total \div per

\* num_splits = (total_pages + pages_per_split - 1) // pages_per_split
NumSplits(total, per) == (total + per - 1) \div per

\* start_page, end_page of split number split_num (from 0)
PageRange(split_num, per, total) ==
    << split_num * per, Min(split_num * per + per, total) >>

\* The pages added to the writer: reader.pages[k] for k in range(start, end)
PagesOf(rd, start, end) == SubSeq(rd, start + 1, end)

\* Mutant of SortedPoints: the points as given, neither sorted nor deduplicated
SortedPoints_AsGiven(points) == points

\* sorted(set(split_points))
SortedPoints(points) == SortedSeq({points[k] : k \in 1..Len(points)})

\* Mutant of RangesFrom: the points are taken as 0-based indices, each range
\* ending at its point and not one before it
RECURSIVE RangesFrom_ZeroBased(_, _, _)
RangesFrom_ZeroBased(points, start, total) ==
    IF points = << >> THEN << << start, total >> >>
    ELSE << << start, Head(points) >> >>
            \o RangesFrom_ZeroBased(Tail(points), Head(points), total)

\* The list `ranges` built from the sorted split points
RECURSIVE RangesFrom(_, _, _)
RangesFrom(points, start, total) ==
    IF points = << >> THEN << << start, total >> >>
    ELSE << << start, Head(points) - 1 >> >>
            \o RangesFrom(Tail(points), Head(points) - 1, total)

\* Mutant of InvalidPoints: only the first point is checked
InvalidPoints_FirstOnly(points, total) ==
    points # << >> /\ (points[1] < 1 \/ points[1] > total)

\* Some point of the sorted list fails the check point < 1 or
\* point > total_pages of the loop over the split points
InvalidPoints(points, total) ==
    \E k \in 1..Len(points) : points[k] < 1 \/ points[k] > total

\* split_by_pages up to its loop: validation, the reader, num_splits
SplitByPagesStart ==
    /\ pc = "call"
    /\ call.fn = "split_by_pages"
    /\ LET e == ValidatePdfFile(files, call.input_file) IN
       IF e # NoExc
         THEN /\ result' = Raise(e)
              /\ pc' = "done"
              /\ UNCHANGED << reader, total_pages, num_splits, i >>
       ELSE IF call.pages_per_split < 1
         THEN /\ result' = Raise(Exc("ValueError",
                                     "pages_per_split must be at least 1", ""))
              /\ pc' = "done"
              /\ UNCHANGED << reader, total_pages, num_splits, i >>
       ELSE /\ reader' = files[call.input_file]
            /\ total_pages' = Len(files[call.input_file])
            /\ num_splits' = NumSplits(Len(files[call.input_file]),
                                       call.pages_per_split)
            /\ i' = 1
            /\ pc' = "split_loop"
            /\ UNCHANGED result
    /\ UNCHANGED << call, fsVars, parseVars, ranges, output_files, mergeVars,
                    writerVars, prev >>

\* split_at_pages up to its loop: validation, the reader, the split points
\* sorted and checked, the list of ranges
SplitAtPagesStart ==
    /\ pc = "call"
    /\ call.fn = "split_at_pages"
    /\ LET e      == ValidatePdfFile(files, call.input_file)
           total  == Len(files[call.input_file])
           points == SortedPoints(call.split_points)
       IN
       IF e # NoExc
         THEN /\ result' = Raise(e)
              /\ pc' = "done"
              /\ UNCHANGED << reader, total_pages, ranges, i >>
       ELSE IF call.split_points = << >>
         THEN /\ result' = Raise(Exc("ValueError", "No split points provided", ""))
              /\ pc' = "done"
              /\ reader' = files[call.input_file]
              /\ total_pages' = total
              /\ UNCHANGED << ranges, i >>
       ELSE IF InvalidPoints(points, total)
         THEN /\ result' = Raise(Exc("ValueError",
                  "Invalid split point: {point}. Must be between 1 and {total_pages}", ""))
              /\ pc' = "done"
              /\ reader' = files[call.input_file]
              /\ total_pages' = total
              /\ UNCHANGED << ranges, i >>
       ELSE /\ reader' = files[call.input_file]
            /\ total_pages' = total
            /\ ranges' = RangesFrom(points, 0, total)
            /\ i' = 1
            /\ pc' = "split_loop"
            /\ UNCHANGED result
    /\ UNCHANGED << call, fsVars, parseVars, num_splits, output_files,
                    mergeVars, writerVars, prev >>

\* split_into_singles up to its loop: validation, the reader, the output
\* directory made if one is given
SplitIntoSinglesStart ==
    /\ pc = "call"
    /\ call.fn = "split_into_singles"
    /\ LET e == ValidatePdfFile(files, call.input_file) IN
       IF e # NoExc
         THEN /\ result' = Raise(e)
              /\ pc' = "done"
              /\ UNCHANGED << dirs, reader, total_pages, i >>
         ELSE /\ reader' = files[call.input_file]
              /\ total_pages' = Len(files[call.input_file])
              /\ dirs' = IF call.output_dir # << >>
                           THEN Mkdir(dirs, MkPath(call.output_dir, "", "", 0, ""))
                           ELSE dirs
              /\ i' = 1
              /\ pc' = "split_loop"
              /\ UNCHANGED result
    /\ UNCHANGED << call, files, wlog, parseVars, splitVars, mergeVars,
                    writerVars, prev >>

\* The number of iterations of the loop of the split in progress
SplitCount ==
    CASE call.fn = "split_by_pages"     -> num_splits
      [] call.fn = "split_into_singles" -> total_pages
      [] OTHER                          -> Len(ranges)

\* (start, end) of iteration i of the loop
SplitRange ==
    CASE call.fn = "split_by_pages"
           -> PageRange(i - 1, call.pages_per_split, total_pages)
      [] call.fn = "split_into_singles" -> << i - 1, i >>
      [] OTHER -> ranges[i]

\* One iteration of the loop of split_by_pages (split_num = i - 1), of
\* split_at_pages (part_num = i) or of split_into_singles (page_num = i - 1):
\* the output path is validated, the pages of the range go to a new writer,
\* the file is written
SplitWrite ==
    /\ pc = "split_loop"
    /\ i <= SplitCount
    /\ LET output_path == SplitOutputPath(call, i)
           e           == ValidateOutputPath(files, output_path, call.overwrite)
           content     == PagesOf(reader, SplitRange[1], SplitRange[2])
       IN
       IF e # NoExc
         THEN /\ result' = Raise(e)
              /\ pc' = "done"
              /\ UNCHANGED << fsVars, writer, output_files, i >>
         ELSE /\ dirs' = Mkdir(dirs, output_path)
              /\ writer' = content
              /\ files' = WriteFile(files, output_path, content)
              /\ wlog' = Append(wlog, Opened(files, output_path, content))
              /\ output_files' = Append(output_files, output_path)
              /\ i' = i + 1
              /\ UNCHANGED << pc, result >>
    /\ UNCHANGED << call, parseVars, reader, total_pages, num_splits, ranges,
                    mergeVars, outline, prev >>

\* return output_files
SplitReturn ==
    /\ pc = "split_loop"
    /\ i > SplitCount
    /\ result' = Return(output_files)
    /\ pc' = "done"
    /\ UNCHANGED << call, fsVars, parseVars, reader, total_pages, splitVars,
                    mergeVars, i, writerVars, prev >>

\* The files of the filesystem every split and merge starts on
FileA == MkPath(<< "d" >>, "a", "", 0, ".pdf")
FileB == MkPath(<< "d" >>, "b", "", 0, ".pdf")
FileC == MkPath(<< "d", "sub" >>, "c", "", 0, ".pdf")
FileN == MkPath(<< "d" >>, "n", "", 0, ".txt")
FileM == MkPath(<< "d" >>, "m", "", 0, ".pdf")
FileU == MkPath(<< "d" >>, "u", "", 0, ".PDF")
FileQ == MkPath(<< "d" >>, "q", "", 0, ".txt")
FileT == MkPath(<< "t" >>, "n", "", 0, ".txt")

\* The filesystem with d/a.pdf of na pages, d/b.pdf of nb pages,
\* d/sub/c.pdf and d/u.PDF of one page, d/n.txt, t/n.txt, and the files of
\* S (one page each); d/m.pdf and d/q.txt are missing
FsWith(na, nb, S) ==
    [q \in {FileA, FileB, FileC, FileN, FileU, FileT} \cup S |->
        CASE q = FileA -> Doc(q, na)
          [] q = FileB -> Doc(q, nb)
          [] q = FileN -> << >>
          [] q = FileT -> << >>
          [] OTHER     -> Doc(q, 1)]

\* Its directories: d, d/sub, the empty e, and t, which holds no PDF file
Dirs0 == { << "d" >>, << "d", "sub" >>, << "e" >>, << "t" >> }

\* The output patterns: the default of the function called, and one
\* without {num}
Patterns(fn) ==
    { [tag |-> CASE fn = "split_by_pages"     -> "_"
                 [] fn = "split_into_singles" -> "_page"
                 [] OTHER                     -> "_part",
       num |-> TRUE],
      [tag |-> "_all", num |-> FALSE] }

\* The output directories split_into_singles is given: none, the directory
\* of the input, the empty e, and new/pages, which does not exist
OutDirs == { << >>, << "d" >>, << "e" >>, << "new", "pages" >> }

\* A split is called on d/a.pdf (0 to MaxPages pages), d/n.txt or the
\* missing d/m.pdf; one output path of the split of d/a.pdf (the first, the
\* second or the third) may exist already
InitSplit ==
    /\ \E fn \in {"split_by_pages", "split_at_pages", "split_into_singles"},
          input \in {FileA, FileN, FileM},
          n \in 0..MaxPages,
          pre \in 0..3,
          overwrite \in BOOLEAN :
        \E pattern \in Patterns(fn),
           per \in (IF fn = "split_by_pages" THEN 0..(MaxPages + 1) ELSE {0}),
           points \in (IF fn = "split_at_pages"
                         THEN UNION {[1..k -> 0..(n + 1)] : k \in 0..MaxPoints}
                         ELSE {<< >>}),
           outdir \in (IF fn = "split_into_singles" THEN OutDirs ELSE {<< >>}) :
          /\ call = [NoCall EXCEPT !.fn = fn, !.input_file = input,
                                   !.output_dir = outdir,
                                   !.pages_per_split = per,
                                   !.split_points = points,
                                   !.output_pattern = pattern,
                                   !.overwrite = overwrite]
          /\ \/ pre = 0 /\ files = FsWith(n, 1, {})
             \/ /\ pre > 0
                /\ OutDir([call EXCEPT !.input_file = FileA]) \in Dirs0
                /\ files = FsWith(n, 1,
                      {SplitOutputPath([call EXCEPT !.input_file = FileA], pre)})
    /\ dirs = Dirs0
    /\ Fresh

NextSplit ==
    \/ SplitByPagesStart
    \/ SplitAtPagesStart
    \/ SplitIntoSinglesStart
    \/ SplitWrite
    \/ SplitReturn

SpecSplit == InitSplit /\ [][NextSplit]_vars

-----------------------------------------------------------------------------
(* utils.get_pdf_files                                                     *)

\* The order of the names of the filesystem below, as Python compares them
Rank(name) ==
    CASE name = "a" -> 1 [] name = "b" -> 2 [] name = "c" -> 3
      [] name = "d" -> 4 [] name = "e" -> 5 [] name = "m" -> 6
      [] name = "n" -> 7 [] name = "new" -> 8 [] name = "out" -> 9
      [] name = "q" -> 10 [] name = "sub" -> 11 [] name = "t" -> 12
      [] name = "u" -> 13 [] name = "x" -> 14

\* The components of a path, each as its rank (the files of the filesystem
\* below differ in their base names)
PathKey(p) == [k \in 1..(Len(p.dir) + 1) |->
                  IF k <= Len(p.dir) THEN Rank(p.dir[k]) ELSE Rank(p.base)]

\* a < b for two tuples, as Python compares them
RECURSIVE TupleLess(_, _)
TupleLess(a, b) ==
    IF a = << >> THEN b # << >>
    ELSE IF b = << >> THEN FALSE
    ELSE IF Head(a) # Head(b) THEN Head(a) < Head(b)
    ELSE TupleLess(Tail(a), Tail(b))

\* sorted(S) for a set of paths
RECURSIVE SortedPaths(_)
SortedPaths(S) ==
    IF S = {} THEN << >>
    ELSE LET m == CHOOSE x \in S :
                     \A y \in S \ {x} : TupleLess(PathKey(x), PathKey(y))
         IN  << m >> \o SortedPaths(S \ {m})

IsPrefix(a, b) == Len(a) <= Len(b) /\ SubSeq(b, 1, Len(a)) = a

\* Mutant of Glob: the subdirectories are always searched
Glob_AlwaysRecursive(fs, directory, recursive) ==
    {p \in DOMAIN fs : p.ext = ".pdf" /\ IsPrefix(directory, p.dir)}

\* dir_path.glob('**/*.pdf' if recursive else '*.pdf'), the names matched
\* with their case as on a POSIX filesystem
Glob(fs, directory, recursive) ==
    {p \in DOMAIN fs :
        /\ p.ext = ".pdf"
        /\ IF recursive THEN IsPrefix(directory, p.dir) ELSE p.dir = directory}

\* The path of a file, as the components a directory argument is given in
FileParts(p) == p.dir \o << p.base >>

\* get_pdf_files(directory, recursive): the exception raised, or the list
GetPdfFiles(fs, ds, directory, recursive) ==
    IF directory \notin ds /\ ~\E p \in DOMAIN fs : FileParts(p) = directory
      THEN Raise(Exc("FileNotFoundError", "Directory not found: {directory}", ""))
    ELSE IF directory \notin ds
      THEN Raise(Exc("ValueError", "Not a directory: {directory}", ""))
    ELSE Return(SortedPaths(Glob(fs, directory, recursive)))

-----------------------------------------------------------------------------
(* merge.merge_pdfs, merge.merge_directory, merge.merge_with_bookmarks     *)

\* The first exception of [validate_pdf_file(f) for f in input_files]
RECURSIVE ValidateAll(_, _)
ValidateAll(fs, inputs) ==
    IF inputs = << >> THEN NoExc
    ELSE IF ValidatePdfFile(fs, Head(inputs)) # NoExc
      THEN ValidatePdfFile(fs, Head(inputs))
    ELSE ValidateAll(fs, Tail(inputs))

\* Mutant of MergePdfsCheck: only the empty list is refused
MergePdfsCheck_NoCount(fs, inputs, out, overwrite) ==
    IF inputs = << >>
      THEN Exc("ValueError", "No input files provided", "")
    ELSE IF ValidateAll(fs, inputs) # NoExc
      THEN ValidateAll(fs, inputs)
    ELSE ValidateOutputPath(fs, out, overwrite)

\* merge_pdfs up to its loop: the exception raised, or NoExc
MergePdfsCheck(fs, inputs, out, overwrite) ==
    IF inputs = << >>
      THEN Exc("ValueError", "No input files provided", "")
    ELSE IF Len(inputs) < 2
      THEN Exc("ValueError", "At least 2 PDF files are required for merging", "")
    ELSE IF ValidateAll(fs, inputs) # NoExc
      THEN ValidateAll(fs, inputs)
    ELSE ValidateOutputPath(fs, out, overwrite)

\* Mutant of MergeWithBookmarksCheck: the output path is not validated
MergeWithBookmarksCheck_InputsOnly(fs, inputs, out, overwrite) ==
    IF inputs = << >>
      THEN Exc("ValueError", "No input files provided", "")
    ELSE ValidateAll(fs, inputs)

\* merge_with_bookmarks up to the validation of the output path: the
\* exception raised, or NoExc
MergeWithBookmarksCheck(fs, inputs, out, overwrite) ==
    IF inputs = << >>
      THEN Exc("ValueError", "No input files provided", "")
    ELSE IF ValidateAll(fs, inputs) # NoExc
      THEN ValidateAll(fs, inputs)
    ELSE ValidateOutputPath(fs, out, overwrite)

\* Mutant of TitlesMismatch: only too few titles are refused
TitlesMismatch_TooFewOnly(given, btitles, inputs) ==
    given /\ Len(btitles) < Len(inputs)

\* bookmark_titles is not None and len(bookmark_titles) != len(input_files)
TitlesMismatch(given, btitles, inputs) ==
    given /\ Len(btitles) # Len(inputs)

\* f.stem
Stem(p) == [base |-> p.base, tag |-> p.tag, num |-> p.num]

\* Mutant of PagesToAdd: the first page of each document is skipped
PagesToAdd_SkipFirst(rd) == SubSeq(rd, 2, Len(rd))

\* Mutant of PagesToAdd: the pages are taken last to first
PagesToAdd_Reversed(rd) == [k \in 1..Len(rd) |-> rd[Len(rd) + 1 - k]]

\* for page in reader.pages: the pages in the order the loop takes them
PagesToAdd(rd) == rd

\* Mutant of NextCurrentPage: current_page += 1, documents counted for pages
NextCurrentPage_PerFile(cur, rd) == cur + 1

\* Mutant of NextCurrentPage: current_page is never advanced
NextCurrentPage_Stuck(cur, rd) == cur

\* current_page += len(reader.pages)
NextCurrentPage(cur, rd) == cur + Len(rd)

\* Mutant of MergeInputs: the output path is taken out of the list
MergeInputs_WithoutOutput ==
    SelectSeq(IF call.fn = "merge_directory" THEN file_paths ELSE call.input_files,
              LAMBDA p : p # call.output_file)

\* The list merge_pdfs is called on: its argument, or the list
\* merge_directory made
MergeInputs == IF call.fn = "merge_directory" THEN file_paths ELSE call.input_files

\* Mutant of NoPdfFiles: an empty list is let through
NoPdfFiles_Never(pdf_files) == FALSE

\* not pdf_files
NoPdfFiles(pdf_files) == pdf_files = << >>

\* merge_directory up to its call of merge_pdfs
MergeDirectoryStart ==
    /\ pc = "call"
    /\ call.fn = "merge_directory"
    /\ LET pdf_files == GetPdfFiles(files, dirs, call.directory, call.recursive) IN
       IF pdf_files.kind = "raise"
         THEN /\ result' = pdf_files
              /\ pc' = "done"
              /\ UNCHANGED file_paths
       ELSE IF NoPdfFiles(pdf_files.value)
         THEN /\ result' = Raise(Exc("ValueError",
                               "No PDF files found in directory: {directory}", ""))
              /\ pc' = "done"
              /\ UNCHANGED file_paths
       ELSE /\ file_paths' = pdf_files.value
            /\ pc' = "merge_pdfs"
            /\ UNCHANGED result
    /\ UNCHANGED << call, fsVars, parseVars, reader, total_pages, splitVars,
                    validated_files, titles, current_page, i, j, writerVars,
                    prev >>

\* merge_pdfs up to its loop: the checks, then the writer is created
MergePdfsStart ==
    /\ \/ pc = "call" /\ call.fn = "merge_pdfs"
       \/ pc = "merge_pdfs"
    /\ LET e == MergePdfsCheck(files, MergeInputs, call.output_file, call.overwrite) IN
       IF e # NoExc
         THEN /\ result' = Raise(e)
              /\ pc' = "done"
              /\ UNCHANGED << dirs, validated_files, total_pages, i, writer >>
         ELSE /\ dirs' = Mkdir(dirs, call.output_file)
              /\ validated_files' = MergeInputs
              /\ total_pages' = 0
              /\ i' = 1
              /\ writer' = << >>
              /\ pc' = "merge_open"
              /\ UNCHANGED result
    /\ UNCHANGED << call, files, wlog, parseVars, reader, splitVars,
                    file_paths, titles, current_page, j, outline, prev >>

\* merge_with_bookmarks up to its loop: the checks, the titles, the writer
MergeWithBookmarksStart ==
    /\ pc = "call"
    /\ call.fn = "merge_with_bookmarks"
    /\ LET e == MergeWithBookmarksCheck(files, call.input_files,
                                        call.output_file, call.overwrite) IN
       IF e # NoExc
         THEN /\ result' = Raise(e)
              /\ pc' = "done"
              /\ UNCHANGED << dirs, validated_files, titles, current_page, i,
                              writer >>
       ELSE IF TitlesMismatch(call.titles_given, call.bookmark_titles,
                              call.input_files)
         THEN /\ dirs' = Mkdir(dirs, call.output_file)
              /\ validated_files' = call.input_files
              /\ result' = Raise(Exc("ValueError",
                    "Number of bookmark titles ({}) doesn't match number of files ({})",
                    ""))
              /\ pc' = "done"
              /\ UNCHANGED << titles, current_page, i, writer >>
       ELSE /\ dirs' = Mkdir(dirs, call.output_file)
            /\ validated_files' = call.input_files
            /\ titles' = IF call.titles_given THEN call.bookmark_titles
                         ELSE [k \in 1..Len(call.input_files) |->
                                  Stem(call.input_files[k])]
            /\ current_page' = 0
            /\ i' = 1
            /\ writer' = << >>
            /\ pc' = "merge_open"
            /\ UNCHANGED result
    /\ UNCHANGED << call, files, wlog, parseVars, reader, total_pages,
                    splitVars, file_paths, j, outline, prev >>

\* The top of the loop over the files: the next file is opened and, in
\* merge_with_bookmarks, its outline item is added at current_page
MergeOpen ==
    /\ pc = "merge_open"
    /\ i <= Len(validated_files)
    /\ reader' = PagesToAdd(files[validated_files[i]])
    /\ j' = 0
    /\ outline' = IF call.fn = "merge_with_bookmarks"
                    THEN Append(outline, [title |-> titles[i],
                                          page |-> current_page,
                                          added |-> Len(writer)])
                    ELSE outline
    /\ pc' = "merge_pages"
    /\ UNCHANGED << call, fsVars, parseVars, total_pages, splitVars,
                    file_paths, validated_files, titles, current_page, i,
                    writer, output_files, result, prev >>

\* merger.add_page(page), for the next page of the open reader
MergeAddPage ==
    /\ pc = "merge_pages"
    /\ j < Len(reader)
    /\ writer' = Append(writer, reader[j + 1])
    /\ j' = j + 1
    /\ UNCHANGED << call, pc, fsVars, parseVars, reader, total_pages,
                    splitVars, file_paths, validated_files, titles,
                    current_page, i, outline, result, prev >>

\* The end of the loop body: the counter is advanced by the pages read
MergeFileDone ==
    /\ pc = "merge_pages"
    /\ j = Len(reader)
    /\ IF call.fn = "merge_with_bookmarks"
         THEN /\ current_page' = NextCurrentPage(current_page, files[validated_files[i]])
              /\ UNCHANGED total_pages
         ELSE /\ total_pages' = total_pages + Len(files[validated_files[i]])
              /\ UNCHANGED current_page
    /\ i' = i + 1
    /\ pc' = "merge_open"
    /\ UNCHANGED << call, fsVars, parseVars, reader, splitVars, file_paths,
                    validated_files, titles, j, writerVars, result, prev >>

\* Mutant of MergeLoopDone: the loop is left after its first iteration
MergeLoopDone_AfterFirst(k, validated) == k > 1

\* The for loop over the validated files has no file left (k is the 1-based
\* index of the next iteration)
MergeLoopDone(k, validated) == k > Len(validated)

\* After the loop: the output file is opened and written, its path returned
MergeWrite ==
    /\ pc = "merge_open"
    /\ MergeLoopDone(i, validated_files)
    /\ files' = WriteFile(files, call.output_file, writer)
    /\ wlog' = Append(wlog, Opened(files, call.output_file, writer))
    /\ result' = Return(call.output_file)
    /\ pc' = "done"
    /\ UNCHANGED << call, dirs, parseVars, reader, total_pages, splitVars,
                    mergeVars, i, writerVars, prev >>

\* The output paths of a merge: in d, in a directory that does not exist,
\* or in e (where, if it exists, it is the only file)
OutD   == MkPath(<< "d" >>, "out", "", 0, ".pdf")
OutNew == MkPath(<< "new" >>, "out", "", 0, ".pdf")
OutE   == MkPath(<< "e" >>, "out", "", 0, ".pdf")

\* The directories merge_directory is called on: d (with sub below it),
\* d/sub, the empty e, t with no PDF file, the missing x, and the file
\* d/n.txt (its name is compared by its base)
DirArgs == { << "d" >>, << "d", "sub" >>, << "e" >>, << "t" >>, << "x" >>,
             << "d", "n" >> }

\* The explicit bookmark titles: t1, t2, ...
GivenTitles(n) == [k \in 1..n |-> [base |-> "t", tag |-> "", num |-> k]]

\* A merge is called: merge_pdfs or merge_with_bookmarks on a list of 0 to
\* MaxInputs paths among d/a.pdf, d/b.pdf, d/n.txt and the missing d/m.pdf,
\* or merge_directory on a directory; d/a.pdf and d/b.pdf have 0 to
\* MaxDocPages pages; the output path may exist already
InitMerge ==
    /\ \E fn \in {"merge_pdfs", "merge_with_bookmarks", "merge_directory"},
          na \in 0..MaxDocPages, nb \in 0..MaxDocPages,
          out \in {OutD, OutNew, OutE},
          pre \in BOOLEAN,
          overwrite \in BOOLEAN :
        \E inputs \in (IF fn = "merge_directory" THEN {<< >>}
                       ELSE UNION {[1..k -> {FileA, FileB, FileN, FileM}] :
                                      k \in 0..MaxInputs}),
           directory \in (IF fn = "merge_directory" THEN DirArgs ELSE {<< >>}),
           recursive \in (IF fn = "merge_directory" THEN BOOLEAN ELSE {FALSE}),
           given \in (IF fn = "merge_with_bookmarks" THEN BOOLEAN ELSE {FALSE}) :
          \E ntitles \in (IF given THEN 0..(MaxInputs + 1) ELSE {0}) :
            /\ pre => out \in {OutD, OutE}
            /\ call = [NoCall EXCEPT !.fn = fn, !.input_files = inputs,
                                     !.output_file = out,
                                     !.overwrite = overwrite,
                                     !.directory = directory,
                                     !.recursive = recursive,
                                     !.titles_given = given,
                                     !.bookmark_titles = GivenTitles(ntitles)]
            /\ files = FsWith(na, nb, IF pre THEN {out} ELSE {})
    /\ dirs = Dirs0
    /\ Fresh

NextMerge ==
    \/ MergeDirectoryStart
    \/ MergePdfsStart
    \/ MergeWithBookmarksStart
    \/ MergeOpen
    \/ MergeAddPage
    \/ MergeFileDone
    \/ MergeWrite

SpecMerge == InitMerge /\ [][NextMerge]_vars

-----------------------------------------------------------------------------
(* Direct calls of utils.validate_pdf_file and utils.validate_output_path   *)

\* The directories after validate_output_path(p, overwrite): the existence
\* check comes first, the mkdir of the parents after it
DirsAfterValidate(fs, ds, p, overwrite) ==
    IF ValidateOutputPath(fs, p, overwrite) # NoExc THEN ds ELSE Mkdir(ds, p)

\* validate_pdf_file(call.input_file)
ValidatePdfFileCall ==
    /\ pc = "call"
    /\ call.fn = "validate_pdf_file"
    /\ LET e == ValidatePdfFile(files, call.input_file) IN
       result' = IF e # NoExc THEN Raise(e) ELSE Return(call.input_file)
    /\ pc' = "done"
    /\ UNCHANGED << call, fsVars, parseVars, reader, total_pages, splitVars,
                    mergeVars, i, writerVars, prev >>

\* validate_output_path(call.output_file, call.overwrite)
ValidateOutputPathCall ==
    /\ pc = "call"
    /\ call.fn = "validate_output_path"
    /\ LET e == ValidateOutputPath(files, call.output_file, call.overwrite) IN
       result' = IF e # NoExc THEN Raise(e) ELSE Return(call.output_file)
    /\ dirs' = DirsAfterValidate(files, dirs, call.output_file, call.overwrite)
    /\ pc' = "done"
    /\ UNCHANGED << call, files, wlog, parseVars, reader, total_pages,
                    splitVars, mergeVars, i, writerVars, prev >>

\* An output path two directories below one that does not exist
OutDeep == MkPath(<< "new", "pages" >>, "out", "", 0, ".pdf")

\* The paths validate_pdf_file is called on: PDF files that exist (one with
\* its suffix in capitals), a file that is no PDF, and two missing paths
InputArgs == {FileA, FileB, FileC, FileU, FileN, FileM, FileQ}

\* The paths validate_output_path is called on: free paths in a directory
\* that exists and in directories that do not, and paths of files
OutputArgs == {OutD, OutNew, OutDeep, FileA, FileC, FileM}

\* A validator is called on a path, d/out.pdf existing or not
InitValidate ==
    /\ \E fn \in {"validate_pdf_file", "validate_output_path"},
          na \in 0..MaxDocPages, nb \in 0..MaxDocPages,
          pre \in BOOLEAN :
        \E p \in (IF fn = "validate_pdf_file" THEN InputArgs ELSE OutputArgs),
           overwrite \in (IF fn = "validate_pdf_file" THEN {FALSE} ELSE BOOLEAN) :
          /\ call = IF fn = "validate_pdf_file"
                      THEN [NoCall EXCEPT !.fn = fn, !.input_file = p]
                      ELSE [NoCall EXCEPT !.fn = fn, !.output_file = p,
                                          !.overwrite = overwrite]
          /\ files = FsWith(na, nb, IF pre THEN {OutD} ELSE {})
    /\ dirs = Dirs0
    /\ Fresh

NextValidate == ValidatePdfFileCall \/ ValidateOutputPathCall

SpecValidate == InitValidate /\ [][NextValidate]_vars

-----------------------------------------------------------------------------
(* Any call of any operation.                                              *)

Init == InitParse \/ InitSplit \/ InitMerge \/ InitValidate

Next == NextParse \/ NextSplit \/ NextMerge \/ NextValidate

Spec == Init /\ [][Next]_vars

-----------------------------------------------------------------------------
(* CLAIMS                                                                  *)

ParseDone == call.fn = "parse_page_ranges" /\ pc = "done"

StrictlyAscending(v) == \A k \in 1..(Len(v) - 1) : v[k] < v[k + 1]

Elems(v) == {v[k] : k \in 1..Len(v)}

\* C3: whenever parse_page_ranges succeeds, the list returned is strictly
\* ascending (so without duplicates), every index lies in [0, total_pages),
\* and its elements are exactly the union over the tokens of {N-1} (a single
\* N) or {N-1, ..., M-1} (a range N-M).
C3_ParseIsSortedUnion ==
    (ParseDone /\ result.kind = "return") =>
        /\ StrictlyAscending(result.value)
        /\ \A k \in 1..Len(result.value) :
              result.value[k] >= 0 /\ result.value[k] < call.total
        /\ Elems(result.value) = Denoted(call.tokens)

\* C3 witness: "2-3,1-2" parsed against 3 pages: two overlapping ranges
\* given out of order, returned as [0, 1, 2]
C3_Witness ==
    /\ ParseDone
    /\ call.tokens = << RangeTok(2, 3), RangeTok(1, 2) >>
    /\ call.total = 3
    /\ result = Return(<< 0, 1, 2 >>)

\* What the claim says of a token: out of range, or not a token at all
RangeBad(t, total) ==
    /\ t.kind \in {"single", "range"}
    /\ (t.n < 1 \/ t.n > total \/ (t.kind = "range" /\ t.n > t.m))

\* The error kind a caller can read off an exception, from its type and its
\* message: a range error says what the bounds are, a token error does not
ErrorKind(e) ==
    IF e.type = "ValueError"
       /\ e.msg \in { "Invalid range: {part}. Must be between 1 and {total_pages}",
                      "Invalid page number: {page}. Must be between 1 and {total_pages}" }
    THEN "InvalidRange"
    ELSE "InvalidToken"

\* C4: parse_page_ranges fails, returning no list, when some token is out
\* of range (N < 1, N > total_pages, N > M) or is no token; the failure is an
\* InvalidRange in the first case and an InvalidToken in the second, and the
\* caller can tell which.
C4_ErrorKinds ==
    ParseDone =>
        /\ (\E k \in 1..Len(call.tokens) :
               RangeBad(call.tokens[k], call.total) \/ call.tokens[k].kind = "junk")
              => result.kind = "raise"
        /\ (result.kind = "raise" /\ RangeBad(call.tokens[i], call.total))
              => ErrorKind(result.exc) = "InvalidRange"
        /\ (result.kind = "raise" /\ call.tokens[i].kind = "junk")
              => ErrorKind(result.exc) = "InvalidToken"

\* C5: two valid range strings that denote the same set of pages, parsed
\* against the same total_pages, return equal lists.
C5_SameSetSameList ==
    (ParseDone /\ prev # NoPrev
       /\ prev.result.kind = "return" /\ result.kind = "return"
       /\ prev.denoted = Denoted(call.tokens))
        => result.value = prev.result.value

\* C5 witness: "2-3,1-2" after a one-token string ("1-3") for the same pages
C5_Witness ==
    /\ ParseDone
    /\ prev.ntokens = 1
    /\ prev.result = Return(<< 0, 1, 2 >>)
    /\ call.tokens = << RangeTok(2, 3), RangeTok(1, 2) >>
    /\ result.kind = "return"

-----------------------------------------------------------------------------
(* Claims about the splits                                                 *)

\* The pages [a, b) of the document at path p, in order
PagesFromTo(p, a, b) == [k \in 1..(b - a) |-> Page(p, a + k - 1)]

\* The contents written by the call, one after the other
RECURSIVE Concat(_)
Concat(log) == IF log = << >> THEN << >>
               ELSE Head(log).content \o Concat(Tail(log))

\* ceil(t / p): the least n with n * p >= t
Ceil(t, p) == CHOOSE n \in 0..t : n * p >= t /\ \A m \in 0..(n - 1) : m * p < t

SplitReturned(fn) == call.fn = fn /\ pc = "done" /\ result.kind = "return"

\* A split that nothing stops: the input is a PDF file that exists and
\* existing output files may be overwritten
SplitUnhindered ==
    /\ Exists(files, call.input_file)
    /\ call.input_file.ext = ".pdf"
    /\ call.overwrite

\* C1: split_by_pages of a document of T >= 1 pages with P >= 1 pages per
\* file writes ceil(T/P) ranges; the k-th (from 0) is the pages
\* [k*P, min((k+1)*P, T)) of the input, so that the ranges, in order, are the
\* whole document once; each but the last has P pages and the last is not
\* empty.  With T >= 1, P >= 1 and overwriting allowed the split succeeds.
C1_FixedSizeRanges ==
    LET T == Len(files[call.input_file])
        P == call.pages_per_split
    IN  /\ (SplitReturned("split_by_pages") /\ T >= 1) =>
              /\ P >= 1
              /\ Len(wlog) = Ceil(T, P)
              /\ Len(result.value) = Len(wlog)
              /\ \A k \in 0..(Len(wlog) - 1) :
                    /\ wlog[k + 1].content =
                          PagesFromTo(call.input_file, k * P, Min((k + 1) * P, T))
                    /\ k < Len(wlog) - 1 => Len(wlog[k + 1].content) = P
                    /\ Len(wlog[k + 1].content) >= 1
              /\ Concat(wlog) = Doc(call.input_file, T)
        /\ (call.fn = "split_by_pages" /\ pc = "done" /\ SplitUnhindered
              /\ T >= 1 /\ P >= 1)
              => result.kind = "return"

\* C1 witness: 4 pages split by 3: the ranges [0,3) and [3,4)
C1_Witness ==
    /\ SplitReturned("split_by_pages")
    /\ call.pages_per_split = 3
    /\ Len(wlog) = 2
    /\ wlog[1].content = PagesFromTo(FileA, 0, 3)
    /\ wlog[2].content = PagesFromTo(FileA, 3, 4)

\* The n-th smallest element of the set S of integers (n from 1)
Nth(S, n) == CHOOSE x \in S : Cardinality({y \in S : y < x}) = n - 1

\* The boundary after range n (n from 1; 0 before the first) for the set S
\* of split points
Boundary(S, n, T) ==
    IF n = 0 THEN 0 ELSE IF n = Cardinality(S) + 1 THEN T ELSE Nth(S, n) - 1

\* C2: split_at_pages with points all in [1, T], p1 < ... < pk once sorted
\* and deduplicated, writes exactly the k+1 ranges [0,p1-1), [p1-1,p2-1),
\* ..., [pk-1,T) in that order; together they are the whole document once.
\* With such points and overwriting allowed the split succeeds.
C2_SplitPointRanges ==
    LET T == Len(files[call.input_file])
        S == {call.split_points[k] : k \in 1..Len(call.split_points)}
    IN  /\ SplitReturned("split_at_pages") =>
              /\ S # {} /\ \A x \in S : x >= 1 /\ x <= T
              /\ Len(wlog) = Cardinality(S) + 1
              /\ Len(result.value) = Len(wlog)
              /\ \A n \in 1..Len(wlog) :
                    wlog[n].content =
                        PagesFromTo(call.input_file, Boundary(S, n - 1, T),
                                    Boundary(S, n, T))
              /\ Concat(wlog) = Doc(call.input_file, T)
        /\ (call.fn = "split_at_pages" /\ pc = "done" /\ SplitUnhindered
              /\ S # {} /\ \A x \in S : x >= 1 /\ x <= T)
              => result.kind = "return"

\* C2 witness: 4 pages split at [3, 2]: the ranges [0,1), [1,2), [2,4)
C2_Witness ==
    /\ SplitReturned("split_at_pages")
    /\ call.split_points = << 3, 2 >>
    /\ Len(wlog) = 3
    /\ wlog[1].content = PagesFromTo(FileA, 0, 1)
    /\ wlog[2].content = PagesFromTo(FileA, 1, 2)
    /\ wlog[3].content = PagesFromTo(FileA, 2, 4)

-----------------------------------------------------------------------------
(* Claims about the merges                                                 *)

IsMerge == call.fn \in {"merge_pdfs", "merge_directory", "merge_with_bookmarks"}

MergeReturned == IsMerge /\ pc = "done" /\ result.kind = "return"

\* What the file at p held when the call began: what the first write to p
\* replaced, if the call wrote to p
ContentAtCall(p) ==
    IF \E k \in 1..Len(wlog) : wlog[k].path = p
      THEN wlog[CHOOSE k \in 1..Len(wlog) :
                  wlog[k].path = p /\ \A m \in 1..(k - 1) : wlog[m].path # p].replaced
      ELSE files[p]

\* The number of pages of the first n documents of the list
RECURSIVE PagesBefore(_, _)
PagesBefore(inputs, n) ==
    IF n = 0 THEN 0
    ELSE PagesBefore(inputs, n - 1) + Len(ContentAtCall(inputs[n]))

\* The pages of the documents of the list, document after document
RECURSIVE AllPages(_)
AllPages(inputs) ==
    IF inputs = << >> THEN << >>
    ELSE ContentAtCall(Head(inputs)) \o AllPages(Tail(inputs))

\* C6: a successful merge of two or more documents writes an output file
\* whose page count is the sum of the page counts of the inputs.
C6_MergedPageCount ==
    (MergeReturned /\ Len(MergeInputs) >= 2) =>
        /\ Exists(files, call.output_file)
        /\ Len(files[call.output_file])
              = PagesBefore(MergeInputs, Len(MergeInputs))

\* C6 witness: a.pdf (2 pages), b.pdf (1 page) and a.pdf again, merged
\* into 5 pages
C6_Witness ==
    /\ MergeReturned
    /\ call.input_files = << FileA, FileB, FileA >>
    /\ Len(ContentAtCall(FileA)) = 2
    /\ Len(ContentAtCall(FileB)) = 1
    /\ Len(files[call.output_file]) = 5

\* C7: at every moment of a merge the pages in the writer are the first
\* pages of the inputs taken document after document, in the order given,
\* each document in page order: while document i is read, the writer holds
\* all pages of the documents before it and the first j pages of document i,
\* and nothing else; what is written at the end is all of them.
C7_MergeOrder ==
    (IsMerge /\ pc \in {"merge_open", "merge_pages", "done"}
       /\ result.kind # "raise") =>
        /\ IsPrefix(writer, AllPages(MergeInputs))
        /\ pc = "merge_open" => Len(writer) = PagesBefore(MergeInputs, i - 1)
        /\ pc = "merge_pages" => Len(writer) = PagesBefore(MergeInputs, i - 1) + j
        /\ pc = "done" => /\ writer = AllPages(MergeInputs)
                          /\ files[call.output_file] = writer

\* C7 witness: merging a.pdf (2 pages) and b.pdf (2 pages), the writer holds
\* both pages of a.pdf and the first page of b.pdf
C7_Witness ==
    /\ call.fn = "merge_pdfs"
    /\ call.input_files = << FileA, FileB >>
    /\ pc = "merge_pages"
    /\ i = 2
    /\ writer = << Page(FileA, 0), Page(FileA, 1), Page(FileB, 0) >>

\* The exceptions that say that too few input files were given
InsufficientInputs ==
    { Exc("ValueError", "No input files provided", ""),
      Exc("ValueError", "At least 2 PDF files are required for merging", "") }

\* Whether a file was at p when the call began
ExistedAtCall(p) ==
    IF \E k \in 1..Len(wlog) : wlog[k].path = p
      THEN wlog[CHOOSE k \in 1..Len(wlog) :
                  wlog[k].path = p /\ \A m \in 1..(k - 1) : wlog[m].path # p].existed
      ELSE Exists(files, p)

\* C8: merge_with_bookmarks called with fewer than 2 documents fails with
\* InsufficientInputs and writes no output file (the call being one that
\* nothing else stops: every input an existing PDF file, the output path
\* free or overwriting allowed, as many titles as inputs if titles are given).
C8_BookmarksNeedTwo ==
    (call.fn = "merge_with_bookmarks" /\ pc = "done"
       /\ Len(call.input_files) < 2
       /\ \A k \in 1..Len(call.input_files) :
              /\ ExistedAtCall(call.input_files[k])
              /\ call.input_files[k].ext = ".pdf"
       /\ (call.overwrite \/ ~ExistedAtCall(call.output_file))
       /\ (call.titles_given
              => Len(call.bookmark_titles) = Len(call.input_files)))
        => /\ result.kind = "raise"
           /\ result.exc \in InsufficientInputs
           /\ wlog = << >>

\* C9: merge_pdfs called with no input file or with one fails with
\* InsufficientInputs (a ValueError) whatever the input and the output path
\* are: no file is written and no directory is created.
C9_MergeNeedsTwo ==
    (call.fn = "merge_pdfs" /\ pc = "done" /\ Len(call.input_files) < 2) =>
        /\ result.kind = "raise"
        /\ result.exc \in InsufficientInputs
        /\ wlog = << >>
        /\ dirs = Dirs0
        /\ validated_files = << >>
        /\ reader = << >>

\* C9 witness: merge_pdfs on the one missing file d/m.pdf, the output in a
\* directory that does not exist
C9_Witness ==
    /\ call.fn = "merge_pdfs"
    /\ pc = "done"
    /\ call.input_files = << FileM >>
    /\ call.output_file = OutNew
    /\ result.kind = "raise"

\* C10: a successful merge_with_bookmarks has added one outline item per
\* input document, in the order of the documents, and the page index of the
\* item of document n is the number of pages of the documents before it.
C10_BookmarkOffsets ==
    (call.fn = "merge_with_bookmarks" /\ MergeReturned) =>
        /\ Len(outline) = Len(call.input_files)
        /\ \A n \in 1..Len(outline) :
              /\ outline[n].page = PagesBefore(call.input_files, n - 1)
              /\ outline[n].title = IF call.titles_given
                                      THEN call.bookmark_titles[n]
                                      ELSE Stem(call.input_files[n])

\* C10 witness: a.pdf (2 pages), b.pdf (1 page), a.pdf: items at 0, 2, 3
C10_Witness ==
    /\ call.fn = "merge_with_bookmarks"
    /\ MergeReturned
    /\ call.input_files = << FileA, FileB, FileA >>
    /\ Len(outline) = 3
    /\ outline[1].page = 0
    /\ outline[2].page = 2
    /\ outline[3].page = 3


-----------------------------------------------------------------------------
(* Claims about the failures of the merges                                 *)

\* The exception that says that the titles given are not one per document
MismatchedTitles ==
    Exc("ValueError",
        "Number of bookmark titles ({}) doesn't match number of files ({})", "")

\* A call of merge_with_bookmarks that no check on its paths stops: there
\* are inputs, each an existing PDF file, and the output path is free or
\* may be overwritten
BookmarkPathsValid ==
    /\ call.input_files # << >>
    /\ \A k \in 1..Len(call.input_files) :
          /\ ExistedAtCall(call.input_files[k])
          /\ LowerSuffix(call.input_files[k]) = ".pdf"
    /\ (call.overwrite \/ ~ExistedAtCall(call.output_file))

\* C11: merge_with_bookmarks given titles whose count differs from the
\* number of input documents fails and writes no output file, and the
\* failure is MismatchedTitles when no check on the paths fails before it;
\* without titles it never fails with MismatchedTitles and uses one title
\* per document.
C11_TitleCount ==
    (call.fn = "merge_with_bookmarks" /\ pc = "done") =>
        /\ (call.titles_given
              /\ Len(call.bookmark_titles) # Len(call.input_files))
              => /\ result.kind = "raise"
                 /\ wlog = << >>
                 /\ (call.output_file = OutNew => ~Exists(files, OutNew))
                 /\ (BookmarkPathsValid => result.exc = MismatchedTitles)
        /\ ~call.titles_given
              => /\ result.exc # MismatchedTitles
                 /\ result.kind = "return"
                      => /\ Len(titles) = Len(call.input_files)
                         /\ Len(outline) = Len(call.input_files)

\* C11 witness: two documents, one title; the call fails with no file
\* written
C11_Witness ==
    /\ call.fn = "merge_with_bookmarks"
    /\ pc = "done"
    /\ call.input_files = << FileA, FileB >>
    /\ call.titles_given
    /\ Len(call.bookmark_titles) = 1
    /\ call.output_file = OutNew
    /\ result = Raise(MismatchedTitles)
    /\ wlog = << >>

-----------------------------------------------------------------------------
(* Claims about the validators                                             *)

\* The exception that says that the output path exists
AlreadyExists ==
    Exc("FileExistsError", "Output file already exists: {filepath}", "")

ValidateOutputDone == call.fn = "validate_output_path" /\ pc = "done"

\* C12: validate_output_path fails, with AlreadyExists, exactly when the
\* path exists and overwrite is false, and returns the path otherwise; a
\* merge with overwrite never fails with AlreadyExists, and when it returns
\* with the output path having existed, the file holds the merged pages in
\* place of what it held.
C12_AlreadyExistsIff ==
    /\ ValidateOutputDone =>
          /\ result.kind = "raise"
                <=> (Exists(files, call.output_file) /\ ~call.overwrite)
          /\ result.kind = "raise" => result.exc = AlreadyExists
          /\ result.kind = "return" => result.value = call.output_file
    /\ (IsMerge /\ call.overwrite) =>
          /\ result.exc # AlreadyExists
          /\ (MergeReturned /\ ExistedAtCall(call.output_file)) =>
                /\ Len(wlog) = 1
                /\ wlog[1].path = call.output_file
                /\ wlog[1].existed
                /\ files[call.output_file] = AllPages(MergeInputs)

\* C12 witness: merge_pdfs of d/a.pdf (2 pages) and d/b.pdf (1 page) onto
\* the existing d/out.pdf (1 page), with overwrite: the file is replaced
C12_Witness ==
    /\ call.fn = "merge_pdfs"
    /\ MergeReturned
    /\ call.overwrite
    /\ call.input_files = << FileA, FileB >>
    /\ wlog[1].existed
    /\ wlog[1].replaced = Doc(OutD, 1)
    /\ files[OutD] = Doc(FileA, 2) \o Doc(FileB, 1)

\* The directories above the file at p, p's own directory included
Parents(p) == {SubSeq(p.dir, 1, k) : k \in 1..Len(p.dir)}

\* C13: a call of validate_output_path changes no file and opens none; the
\* only change it makes is to create the directories above the path that are
\* missing, all of them when it returns and none when it fails.
C13_OnlyMakesDirs ==
    [][call.fn = "validate_output_path" =>
          /\ files' = files
          /\ wlog' = wlog
          /\ dirs \subseteq dirs'
          /\ dirs' \ dirs \subseteq Parents(call.output_file)
          /\ result'.kind = "raise" => dirs' = dirs
          /\ result'.kind = "return" => Parents(call.output_file) \subseteq dirs']_vars

\* C13 witness: validate_output_path on new/pages/out.pdf has made new and
\* new/pages, and no file
C13_Witness ==
    /\ ValidateOutputDone
    /\ call.output_file = OutDeep
    /\ result.kind = "return"
    /\ dirs = Dirs0 \cup { << "new" >>, << "new", "pages" >> }
    /\ ~Exists(files, OutDeep)

-----------------------------------------------------------------------------
(* Claims about overwriting                                                *)

IsSplit == call.fn \in {"split_by_pages", "split_at_pages", "split_into_singles"}

\* The inputs of the merge pass its checks: enough of them, each an
\* existing PDF file
MergeInputsValid ==
    /\ Len(MergeInputs) >= (IF call.fn = "merge_with_bookmarks" THEN 1 ELSE 2)
    /\ \A k \in 1..Len(MergeInputs) :
          /\ ExistedAtCall(MergeInputs[k])
          /\ LowerSuffix(MergeInputs[k]) = ".pdf"

\* C14: without overwrite no operation opens for writing a file that exists:
\* a merge whose output path exists fails, with AlreadyExists when its inputs
\* pass, and a split fails with AlreadyExists at the first of its output
\* paths that exists, the outputs before it being new files.
C14_NoOverwriteWithoutFlag ==
    ((IsMerge \/ IsSplit) /\ ~call.overwrite) =>
        /\ \A k \in 1..Len(wlog) : ~wlog[k].existed
        /\ (IsMerge /\ pc = "done" /\ ExistedAtCall(call.output_file)) =>
              /\ result.kind = "raise"
              /\ wlog = << >>
              /\ MergeInputsValid => result.exc = AlreadyExists
        /\ (IsSplit /\ pc = "done"
              /\ \E k \in 1..SplitCount : ExistedAtCall(SplitOutputPath(call, k))) =>
              /\ result = Raise(AlreadyExists)
              /\ Len(wlog) = i - 1
              /\ Exists(files, SplitOutputPath(call, i))
              /\ \A k \in 1..(i - 1) : ~ExistedAtCall(SplitOutputPath(call, k))

\* C14 witness: split_into_singles of d/a.pdf with d/a_page2.pdf existing:
\* page 1 is written to a new file, then the split fails
C14_Witness ==
    /\ call.fn = "split_into_singles"
    /\ call.input_file = FileA
    /\ call.output_dir = << >>
    /\ ~call.overwrite
    /\ pc = "done"
    /\ result = Raise(AlreadyExists)
    /\ i = 2
    /\ Len(wlog) = 1
    /\ ~wlog[1].existed
    /\ Exists(files, MkPath(<< "d" >>, "a", "_page", 2, ".pdf"))

\* C15: in a merge the only step that opens a file for writing or changes
\* a file is the one that writes the output, taken when the pages of all
\* inputs are in the writer, and it makes the call return; every step that
\* raises leaves the files as they were, no file having been opened.
C15_ErrorsBeforeWrite ==
    [][IsMerge =>
          /\ (files' # files \/ wlog' # wlog) =>
                /\ wlog = << >>
                /\ validated_files = MergeInputs
                /\ writer = AllPages(MergeInputs)
                /\ result'.kind = "return"
                /\ wlog' = << Opened(files, call.output_file, writer) >>
                /\ \A q \in DOMAIN files \ {call.output_file} :
                      Exists(files', q) /\ files'[q] = files[q]
          /\ result'.kind = "raise" =>
                /\ files' = files
                /\ wlog' = << >>]_vars

\* C15 witness: merge_with_bookmarks onto the existing d/out.pdf, with
\* overwrite and one title for two documents: it fails, d/out.pdf is as
\* it was
C15_Witness ==
    /\ call.fn = "merge_with_bookmarks"
    /\ pc = "done"
    /\ call.overwrite
    /\ call.input_files = << FileA, FileB >>
    /\ call.output_file = OutD
    /\ result = Raise(MismatchedTitles)
    /\ wlog = << >>
    /\ Exists(files, OutD)
    /\ files[OutD] = Doc(OutD, 1)

-----------------------------------------------------------------------------
(* Claims about the failures of the splits                                 *)

\* The split failed in iteration i of its loop (i stays 0 when the split
\* fails before its loop)
SplitFailedInLoop == IsSplit /\ pc = "done" /\ result.kind = "raise" /\ i >= 1

\* (start, end) of iteration m of the loop of the split
SplitRange_At(m) ==
    CASE call.fn = "split_by_pages"
           -> << (m - 1) * call.pages_per_split,
                 Min(m * call.pages_per_split, total_pages) >>
      [] call.fn = "split_into_singles" -> << m - 1, m >>
      [] OTHER -> ranges[m]

\* C16: when producing output k of a split fails, the outputs 1..k-1 have
\* been written, each once, and are on disk with what was written to them;
\* output k and those after it have not been written, and the call ends with
\* the exception of the failure.
C16_SplitAbortsAtFirstFailure ==
    SplitFailedInLoop =>
        /\ i <= SplitCount
        /\ Len(wlog) = i - 1
        /\ output_files = [m \in 1..(i - 1) |-> SplitOutputPath(call, m)]
        /\ \A m \in 1..(i - 1) :
              /\ wlog[m].path = SplitOutputPath(call, m)
              /\ wlog[m].content = PagesOf(reader, SplitRange_At(m)[1], SplitRange_At(m)[2])
              /\ Exists(files, wlog[m].path)
              /\ files[wlog[m].path] = wlog[m].content
        /\ result.exc = ValidateOutputPath(files, SplitOutputPath(call, i),
                                           call.overwrite)
        /\ result.exc # NoExc

\* C16 witness: split_at_pages of d/a.pdf (4 pages) at 2 and 3 with
\* d/a_part3.pdf existing: parts 1 and 2 are on disk, part 3 failed
C16_Witness ==
    /\ call.fn = "split_at_pages"
    /\ call.split_points = << 2, 3 >>
    /\ SplitFailedInLoop
    /\ i = 3
    /\ Len(reader) = 4
    /\ files[MkPath(<< "d" >>, "a", "_part", 1, ".pdf")] = PagesFromTo(FileA, 0, 1)
    /\ files[MkPath(<< "d" >>, "a", "_part", 2, ".pdf")] = PagesFromTo(FileA, 1, 2)
    /\ files[MkPath(<< "d" >>, "a", "_part", 3, ".pdf")]
          = Doc(MkPath(<< "d" >>, "a", "_part", 3, ".pdf"), 1)

\* The exceptions of split_at_pages for its split points
NoSplitPoints == Exc("ValueError", "No split points provided", "")

InvalidSplitPoint ==
    Exc("ValueError",
        "Invalid split point: {point}. Must be between 1 and {total_pages}", "")

\* C17: split_at_pages of a valid input fails with NoSplitPoints when the
\* list of points is empty and with InvalidRange when some point is outside
\* [1, total_pages], wherever in the list that point is; the failure comes
\* before any output path is validated: no file is opened and no directory
\* made.
C17_SplitPointsChecked ==
    (call.fn = "split_at_pages" /\ pc = "done"
       /\ ValidatePdfFile(files, call.input_file) = NoExc) =>
        LET T == Len(reader) IN
        /\ call.split_points = << >> => result = Raise(NoSplitPoints)
        /\ (\E k \in 1..Len(call.split_points) :
               call.split_points[k] < 1 \/ call.split_points[k] > T)
              => result = Raise(InvalidSplitPoint)
        /\ result.exc \in {NoSplitPoints, InvalidSplitPoint} =>
              /\ wlog = << >>
              /\ output_files = << >>
              /\ dirs = Dirs0
              /\ i = 0

\* C17 witness: d/a.pdf has 3 pages, the points are [2, 4]: the split fails
\* on the second point with nothing written
C17_Witness ==
    /\ call.fn = "split_at_pages"
    /\ pc = "done"
    /\ call.input_file = FileA
    /\ Len(reader) = 3
    /\ call.split_points = << 2, 4 >>
    /\ result = Raise(InvalidSplitPoint)
    /\ wlog = << >>

-----------------------------------------------------------------------------
(* Claims about the validation of the inputs                               *)

NotFound == Exc("FileNotFoundError", "File not found: {filepath}", "")

InvalidFormat == Exc("ValueError", "Not a PDF file: {filepath}", "")

\* What the claim says of an input path on the filesystem fs: NotFound if
\* nothing is there, whatever the suffix; InvalidFormat if the suffix is not
\* .pdf in small or capital letters; else no error
InputError(fs, p) ==
    IF p \notin DOMAIN fs THEN NotFound
    ELSE IF p.ext \notin {".pdf", ".PDF"} THEN InvalidFormat
    ELSE NoExc

\* The index of the first input of the list that is in error
FirstInvalid(fs, inputs) ==
    CHOOSE k \in 1..Len(inputs) :
        /\ InputError(fs, inputs[k]) # NoExc
        /\ \A m \in 1..(k - 1) : InputError(fs, inputs[m]) = NoExc

\* C18: validate_pdf_file raises NotFound for a path that does not exist,
\* InvalidFormat for an existing path whose suffix is not .pdf (in either
\* case of letters) and returns the path otherwise, changing no file and no
\* directory; merge_pdfs, given two inputs or more of which some is invalid,
\* fails with the error of the first invalid one in the order of the list.
C18_ValidateInput ==
    [][/\ call.fn = "validate_pdf_file" =>
             /\ result' = IF InputError(files, call.input_file) # NoExc
                            THEN Raise(InputError(files, call.input_file))
                            ELSE Return(call.input_file)
             /\ UNCHANGED fsVars
       /\ (call.fn = "merge_pdfs" /\ pc = "call"
             /\ Len(call.input_files) >= 2
             /\ \E k \in 1..Len(call.input_files) :
                   InputError(files, call.input_files[k]) # NoExc) =>
             /\ result' = Raise(InputError(files,
                     call.input_files[FirstInvalid(files, call.input_files)]))
             /\ UNCHANGED fsVars]_vars

\* C18 witness: merge_pdfs of d/a.pdf, d/n.txt and the missing d/m.pdf
\* fails on d/n.txt
C18_Witness ==
    /\ call.fn = "merge_pdfs"
    /\ pc = "done"
    /\ call.input_files = << FileA, FileN, FileM >>
    /\ result = Raise(InvalidFormat)

-----------------------------------------------------------------------------
(* Claims about the split into single pages                                *)

\* C19: split_into_singles of a document of T pages writes T files; the
\* k-th (k from 1) holds the one page of index k - 1 and, with the default
\* pattern, has k in its name, in the output directory if one is given and
\* beside the input if not; the list returned is the paths in that order.
\* With an existing PDF as input and overwriting allowed the split succeeds.
C19_SinglePages ==
    /\ SplitReturned("split_into_singles") =>
          LET T == Len(reader) IN
          /\ reader = Doc(call.input_file, T)
          /\ Len(wlog) = T
          /\ Len(result.value) = T
          /\ \A k \in 1..T :
                /\ wlog[k].content = << Page(call.input_file, k - 1) >>
                /\ result.value[k] = wlog[k].path
                /\ wlog[k].path.dir = IF call.output_dir # << >>
                                        THEN call.output_dir
                                        ELSE call.input_file.dir
                /\ wlog[k].path.base = call.input_file.base
                /\ call.output_pattern.num =>
                      /\ wlog[k].path.num = k
                      /\ Exists(files, wlog[k].path)
                      /\ files[wlog[k].path] = wlog[k].content
    /\ (call.fn = "split_into_singles" /\ pc = "done" /\ SplitUnhindered)
          => result.kind = "return"

\* C19 witness: d/a.pdf of 3 pages split into new/pages/a_page1.pdf,
\* a_page2.pdf and a_page3.pdf
C19_Witness ==
    /\ SplitReturned("split_into_singles")
    /\ call.input_file = FileA
    /\ call.output_dir = << "new", "pages" >>
    /\ Len(result.value) = 3
    /\ \A k \in 1..3 :
          /\ result.value[k] = MkPath(<< "new", "pages" >>, "a", "_page", k, ".pdf")
          /\ Exists(files, result.value[k])
          /\ files[result.value[k]] = << Page(FileA, k - 1) >>

-----------------------------------------------------------------------------
(* Claims about the merge of a directory                                   *)

\* The .pdf files that were in the directory of the call when it began:
\* directly in it, or anywhere below it if recursive
PdfsAtCall ==
    {p \in DOMAIN files :
        /\ ExistedAtCall(p)
        /\ p.ext = ".pdf"
        /\ \/ p.dir = call.directory
           \/ /\ call.recursive
              /\ Len(p.dir) > Len(call.directory)
              /\ SubSeq(p.dir, 1, Len(call.directory)) = call.directory}

\* The .pdf paths of the filesystem in ascending order: d/a.pdf, d/b.pdf,
\* d/out.pdf, d/sub/c.pdf, e/out.pdf
AscendingPaths == << FileA, FileB, OutD, FileC, OutE >>

PositionOf(p) == CHOOSE k \in 1..Len(AscendingPaths) : AscendingPaths[k] = p

\* C20: merge_directory hands to the merge exactly the .pdf files of the
\* directory (those of its subdirectories too if and only if recursive),
\* each once, in ascending order of their paths; the output of a successful
\* call is their pages in that order, its page count the sum of theirs.
C20_DirectoryMerge ==
    (call.fn = "merge_directory" /\ pc # "call" /\ file_paths # << >>) =>
        /\ Elems(file_paths) = PdfsAtCall
        /\ \A k \in 1..(Len(file_paths) - 1) :
              PositionOf(file_paths[k]) < PositionOf(file_paths[k + 1])
        /\ MergeReturned =>
              /\ files[call.output_file] = AllPages(file_paths)
              /\ Len(files[call.output_file])
                    = PagesBefore(file_paths, Cardinality(PdfsAtCall))

\* C20 witness: merge_directory of d, recursive, with d/a.pdf of 2 pages and
\* d/b.pdf of 2: d/a.pdf, d/b.pdf and d/sub/c.pdf are merged into 5 pages
C20_Witness ==
    /\ call.fn = "merge_directory"
    /\ call.directory = << "d" >>
    /\ call.recursive
    /\ MergeReturned
    /\ file_paths = << FileA, FileB, FileC >>
    /\ Len(files[call.output_file]) = 5

-----------------------------------------------------------------------------
(* Claims about what merge_directory and merge_with_bookmarks do first     *)

\* The exception that says that the directory holds no PDF file
EmptyDirectory ==
    Exc("ValueError", "No PDF files found in directory: {directory}", "")

\* C21: merge_directory on a directory with no .pdf file in it (none below
\* it either, if recursive) fails with EmptyDirectory; the output path has
\* not been validated: no directory has been made and no file opened.
C21_EmptyDirectory ==
    (call.fn = "merge_directory" /\ pc = "done"
       /\ call.directory \in Dirs0 /\ PdfsAtCall = {}) =>
        /\ result = Raise(EmptyDirectory)
        /\ dirs = Dirs0
        /\ wlog = << >>
        /\ file_paths = << >>
        /\ validated_files = << >>
        /\ (call.output_file = OutNew => ~Exists(files, OutNew))

\* C21 witness: merge_directory on t, which holds only t/n.txt, with the
\* output in the missing directory new: the call fails and new is not made
C21_Witness ==
    /\ call.fn = "merge_directory"
    /\ pc = "done"
    /\ call.directory = << "t" >>
    /\ call.output_file = OutNew
    /\ result = Raise(EmptyDirectory)
    /\ << "new" >> \notin dirs

-----------------------------------------------------------------------------
(* Claims about the ranges of split_at_pages                               *)

\* C22: in split_at_pages a range is empty exactly when it is the first
\* range and 1 is among the split points; a file of no page is written for
\* it, and every other file written, the last included, has a page or more.
C22_EmptyFirstRange ==
    (call.fn = "split_at_pages" /\ pc \in {"split_loop", "done"}
       /\ ranges # << >>) =>
        LET S == {call.split_points[k] : k \in 1..Len(call.split_points)} IN
        /\ \A n \in 1..Len(ranges) :
              /\ ranges[n][1] <= ranges[n][2]
              /\ ranges[n][1] = ranges[n][2] <=> (n = 1 /\ 1 \in S)
        /\ \A n \in 1..Len(wlog) :
              wlog[n].content = << >> <=> (n = 1 /\ 1 \in S)
        /\ SplitReturned("split_at_pages") =>
              /\ Len(wlog) = Len(ranges)
              /\ Len(wlog[Len(wlog)].content) >= 1

\* C22 witness: d/a.pdf of 3 pages split at [3, 1]: part 1 is a file of no
\* page, parts 2 and 3 hold pages [0,2) and [2,3)
C22_Witness ==
    /\ SplitReturned("split_at_pages")
    /\ call.split_points = << 3, 1 >>
    /\ Len(reader) = 3
    /\ Len(wlog) = 3
    /\ wlog[1].content = << >>
    /\ wlog[1].path = MkPath(<< "d" >>, "a", "_part", 1, ".pdf")
    /\ Len(wlog[2].content) = 2
    /\ Len(wlog[3].content) = 1

-----------------------------------------------------------------------------
(* Claims about an output path among the inputs of merge_directory         *)

\* The output path of the call was a .pdf file of the directory listed (or
\* of its tree, if recursive) when the call began
OutputAmongPdfs ==
    /\ call.fn = "merge_directory"
    /\ call.output_file \in DOMAIN files
    /\ call.output_file \in PdfsAtCall

\* The index of the path p in the list v
IndexIn(v, p) == CHOOSE k \in 1..Len(v) : v[k] = p

SamePath(m, n) == SplitOutputPath(call, m) = SplitOutputPath(call, n)

\* Output n of the split in progress is the second of two of the same path
SecondOfPair(n) == n \in 2..SplitCount /\ \E m \in 1..(n - 1) : SamePath(m, n)

\* C24: a split without overwrite opens no path for writing twice and none
\* that exists.  When two of its outputs have the same path the loop never
\* gets past the second of them: the call ends with AlreadyExists, and when
\* it ends at the second the first of the two has been written and is on
\* disk as written.
C24_WrittenOnce ==
    (IsSplit /\ ~call.overwrite) =>
        /\ \A m, n \in 1..Len(wlog) : m < n => wlog[m].path # wlog[n].path
        /\ \A m \in 1..Len(wlog) : ~wlog[m].existed
        /\ \A n \in 2..SplitCount :
              (pc \in {"split_loop", "done"} /\ i >= 1 /\ SecondOfPair(n)) =>
                  /\ i <= n
                  /\ pc = "done" =>
                        /\ result = Raise(AlreadyExists)
                        /\ Len(wlog) = i - 1
                        /\ i = n =>
                              \E m \in 1..(n - 1) :
                                  /\ SamePath(m, n)
                                  /\ wlog[m].path = SplitOutputPath(call, n)
                                  /\ Exists(files, wlog[m].path)
                                  /\ files[wlog[m].path] = wlog[m].content

\* C24 witness: split_by_pages of d/a.pdf (4 pages) by 2 with the pattern
\* without {num} and no output on disk: d/a_all.pdf holds the first two
\* pages and the second output failed
C24_Witness ==
    /\ call.fn = "split_by_pages"
    /\ call.pages_per_split = 2
    /\ ~call.output_pattern.num
    /\ ~call.overwrite
    /\ pc = "done"
    /\ result = Raise(AlreadyExists)
    /\ i = 2
    /\ Len(reader) = 4
    /\ Len(wlog) = 1
    /\ ~wlog[1].existed
    /\ Exists(files, SplitOutputPath(call, 2))
    /\ files[SplitOutputPath(call, 2)] = PagesFromTo(FileA, 0, 2)

\* The loop of merge_with_bookmarks has been entered
InBookmarkLoop ==
    /\ call.fn = "merge_with_bookmarks"
    /\ pc \in {"merge_open", "merge_pages", "done"}
    /\ i >= 1

\* Page number k (from 0) is in the writer
InWriter(k) == k < Len(writer)

\* C25: in merge_with_bookmarks the outline item of a document is added when
\* the writer holds exactly the pages of the documents before it, as many as
\* the page number the item points to, so that page is not in the writer
\* then; the pages of a document are added only after its item.  On return
\* the page an item points to is in the writer exactly when its document or
\* a later one has a page: the item of a last document without pages points
\* past the end.
C25_BookmarkBeforePages ==
    InBookmarkLoop =>
        /\ \A n \in 1..Len(outline) :
              /\ outline[n].added = outline[n].page
              /\ outline[n].added = PagesBefore(validated_files, n - 1)
        /\ pc = "merge_open" =>
              /\ Len(outline) = i - 1
              /\ Len(writer) = PagesBefore(validated_files, i - 1)
        /\ pc = "merge_pages" =>
              /\ Len(outline) = i
              /\ Len(writer) = outline[i].page + j
              /\ j = 0 => ~InWriter(outline[i].page)
        /\ (pc = "done" /\ result.kind = "return") =>
              /\ Len(outline) = Len(validated_files)
              /\ \A n \in 1..Len(outline) :
                    InWriter(outline[n].page) <=>
                        \E k \in n..Len(validated_files) :
                            ContentAtCall(validated_files[k]) # << >>

\* C25 witness: d/a.pdf (2 pages) and then d/b.pdf (no page) have been
\* merged: the second item points to page 2 of a writer of two pages
C25_Witness ==
    /\ call.fn = "merge_with_bookmarks"
    /\ pc = "done"
    /\ result.kind = "return"
    /\ validated_files = << FileA, FileB >>
    /\ Len(writer) = 2
    /\ Len(outline) = 2
    /\ outline[2].page = 2
    /\ outline[2].added = 2
    /\ ~InWriter(outline[2].page)

\* merge_with_bookmarks is about to run on titles whose count is not the
\* number of its inputs
BookmarkCallMismatched ==
    /\ call.fn = "merge_with_bookmarks"
    /\ pc = "call"
    /\ call.titles_given
    /\ Len(call.bookmark_titles) # Len(call.input_files)

\* Some input of the call is missing or is no PDF file
SomeInputInvalid ==
    \E k \in 1..Len(call.input_files) :
        InputError(files, call.input_files[k]) # NoExc

\* C26: a call of merge_with_bookmarks on titles of the wrong count fails.
\* It fails with the NotFound or InvalidFormat of its first invalid input
\* when there is one, and with AlreadyExists when its inputs are valid and
\* the output path exists without overwrite, in both cases with no file and
\* no directory changed.  It fails with MismatchedTitles only when neither
\* is so, and then no file is written or changed and the directories made
\* are the missing parents of the output path.
C26_TitlesCheckedLast ==
    [][BookmarkCallMismatched =>
          /\ pc' = "done"
          /\ result'.kind = "raise"
          /\ SomeInputInvalid =>
                /\ result' = Raise(InputError(files,
                       call.input_files[FirstInvalid(files, call.input_files)]))
                /\ UNCHANGED fsVars
          /\ (/\ call.input_files # << >>
              /\ ~SomeInputInvalid
              /\ Exists(files, call.output_file)
              /\ ~call.overwrite) =>
                /\ result' = Raise(AlreadyExists)
                /\ UNCHANGED fsVars
          /\ result'.exc = MismatchedTitles =>
                /\ ~SomeInputInvalid
                /\ call.overwrite \/ ~Exists(files, call.output_file)
                /\ files' = files
                /\ wlog' = wlog
                /\ dirs' = dirs \cup Parents(call.output_file)]_vars

\* C26 witness: three documents and two titles, with the output path
\* new/out.pdf: the call failed with MismatchedTitles, the directory new
\* was made and there is no file in it
C26_Witness ==
    /\ call.fn = "merge_with_bookmarks"
    /\ pc = "done"
    /\ Len(call.input_files) = 3
    /\ call.titles_given
    /\ Len(call.bookmark_titles) = 2
    /\ call.output_file = OutNew
    /\ result = Raise(MismatchedTitles)
    /\ dirs = Dirs0 \cup { << "new" >> }
    /\ ~Exists(files, OutNew)
    /\ wlog = << >>
=============================================================================
